---------------------------- MODULE Spec2Model ----------------------------
(***************************************************************************)
(* Model of the client-side quote delivery of inspiro:                     *)
(*   hooks/use-optimized-quotes.ts  (useOptimizedQuotes)                   *)
(*   lib/quote-service.ts           (shuffleArray, getQuotesByIds)         *)
(*   app/api/quotes/ids/route.ts    (favorites POST / DELETE handlers)     *)
(*   the quotes page                (callers of the hook, add-quote flow)  *)
(*                                                                         *)
(* One action is one event handler (or one resumption of an async handler  *)
(* after its await) followed by the React re-render and the effects that   *)
(* the re-render schedules.  Array positions are 0-based as in the code;   *)
(* At and Slice translate to TLA+ sequences.                               *)
(***************************************************************************)
EXTENDS Integers, Sequences, FiniteSets, TLC

\* ------------------------------------------------------------------ bounds
NumQuotes == 3          \* quotes on the server at start (ids 1..NumQuotes)
MaxAdds == 1            \* quotes the user adds (each add calls reset())
MaxInFlight == 2        \* batch requests in flight at once
MaxToggles == 1         \* favourite requests in flight at once
MaxToggleCalls == 2     \* calls of toggleFavorite
MaxShuffleLen == 3      \* longest array handed to shuffleArray on its own
MaxValue == 3           \* those arrays hold values 1..MaxValue
MaxFailures == 1        \* batch requests that fail between two resets
CountCap == 3           \* the request counters saturate here
BatchSize == 2          \* hook option batchSize (20 on the page)
PrefetchThreshold == 0  \* hook option prefetchThreshold (5 on the page)
MaxUsers == 2           \* users with an account
NumPreloaded == 1       \* preloaded quotes the seed script stores
MaxCustomQuotes == 1    \* quotes created through POST /api/quotes
MaxCategory == 1        \* categories 1..MaxCategory (0: no category)
MaxFavorites == 1       \* Favorite rows stored at once
MaxFavoriteCalls == 2      \* POST /api/favorites requests being handled at once
MaxEnterCalls == 2         \* calls of enterFullscreen at an await at once
MaxLocks == 2              \* wake lock sentinels granted in all
MaxEvents == 2             \* fullscreenchange events waiting to be handled
MaxPreferenceRows == 1  \* UserPreferences rows stored at once

\* ----------------------------------------------------------------- helpers
Min(a, b) == IF a < b THEN a ELSE b

Range(s) == {s[x] : x \in DOMAIN s}

\* array[k] with a 0-based index
At(s, k) == s[k + 1]

\* Array.prototype.slice(from, to) with 0-based, end-exclusive bounds
Slice(s, from, to) ==
  LET hi == Min(to, Len(s))
  IN  IF from >= hi THEN <<>> ELSE [x \in 1..(hi - from) |-> s[from + x]]

\* Array.prototype.filter(id => !fetchedIds.current.has(id))
RECURSIVE Unfetched(_, _)
Unfetched(s, fetched) ==
  IF s = <<>> THEN <<>>
  ELSE IF Head(s) \in fetched THEN Unfetched(Tail(s), fetched)
       ELSE <<Head(s)>> \o Unfetched(Tail(s), fetched)

RemoveAt(s, n) == [x \in 1..(Len(s) - 1) |-> IF x < n THEN s[x] ELSE s[x + 1]]

\* number of positions of s that hold v
Count(s, v) == Cardinality({x \in DOMAIN s : s[x] = v})

IsPermutation(s, t) ==
  /\ Len(s) = Len(t)
  /\ \A v \in Range(s) \cup Range(t) : Count(s, v) = Count(t, v)

\* ------------------------------------------------------------ shuffleArray
\* one loop iteration: [shuffled[i], shuffled[j]] = [shuffled[j], shuffled[i]]
\* (faulty variant: shuffled[i] = shuffled[j] only)
SwapBug(a, i, j) == [a EXCEPT ![i + 1] = a[j + 1]]
Swap(a, i, j) == [a EXCEPT ![i + 1] = a[j + 1], ![j + 1] = a[i + 1]]

\* the values Math.floor(Math.random() * (i + 1)) can take
RandomIndex(i) == 0..i

\* one choice of j for every i the loop visits
RandFor(len) == IF len < 2 THEN {<<>>}
                ELSE {r \in [1..(len - 1) -> 0..(len - 1)] :
                        \A i \in 1..(len - 1) : r[i] \in RandomIndex(i)}

RECURSIVE ShuffleFrom(_, _, _)
ShuffleFrom(a, i, r) ==
  IF i > 0 THEN ShuffleFrom(Swap(a, i, r[i]), i - 1, r) ELSE a

\* shuffleArray(array) under the random choices r; the copy [...array] is
\* the value a, the argument itself is never written
shuffleArray(array, r) == ShuffleFrom(array, Len(array) - 1, r)


\* ------------------------------------------------------------------- state
VARIABLES
  serverIds,        \* server: ids the ids endpoint lists for the user
  favorites,        \* server: quote ids the user has favourited
  addPending,       \* page: POST /api/quotes answered 2xx, onSuccess not yet run
  adds,             \* quotes added so far (bounded by MaxAdds)
  idsData,          \* useQuery(['quote-ids']).data.ids  (<<>> while undefined)
  idsFetching,      \* the ids query has a request in flight
  allQuoteIds, shuffledIds, currentIdIndex, quotesCache, currentQuote,
  isInitialized,    \* useState values of the hook
  cacheTag,         \* which pending toggle's newCache object quotesCache is (0: none)
  fetchedIds,       \* fetchedIds.current
  mutations,        \* batch requests in flight, oldest first
  toggles,          \* favourite requests in flight, by slot
  toggleCalls,      \* calls of toggleFavorite so far
  shown,            \* ids displayed in the current pass
  repeated,         \* some id was displayed twice in one pass
  batchRequests,    \* batch requests sent since mount or reset (saturating)
  idsRequests,      \* ids requests the hook asked for since mount or reset
  failures,         \* batch requests that failed since mount or reset
  lastCall,         \* what the latest run of getNextQuote did (call or resumption)
  shArray,          \* shuffleArray on its own: the caller's array
  shInput,          \* ... its elements when shuffleArray was called
  shShuffled,       \* ... the local array `shuffled`
  shAliased,        \* ... `shuffled` is the caller's array object itself
  shI,              \* ... the loop variable i (-2: no call is running)
  apiQuotes,        \* database: the Quote rows, the id of a row is its position
  apiFavorites,     \* database: the Favorite rows, <<userId, quoteId>>
  apiPreferences,   \* database: quoteSource of each user's UserPreferences row
  apiResponse,      \* the latest request an API handler answered, and its answer
  favoriteRows,     \* POST /api/favorites step by step: the Favorite rows
  favoriteCalls,    \* ... the requests a handler is working on
  favoriteReply,    \* ... the latest request answered, and its answer
  fullscreenElement,  \* the page: document.fullscreenElement is set
  fullscreenEvents, \* ... fullscreenchange events not yet handled
  isFullscreen,     \* ... the state isFullscreen
  wakeLock,         \* ... the state wakeLock (0: null, else a sentinel)
  heldLocks,        \* ... the sentinels the browser holds unreleased
  locksGranted,     \* ... sentinels granted so far
  enterCalls        \* ... calls of enterFullscreen at an await, by slot

vars == <<serverIds, favorites, addPending, adds, idsData, idsFetching,
          allQuoteIds, shuffledIds, currentIdIndex, quotesCache, currentQuote,
          isInitialized, cacheTag, fetchedIds, mutations, toggles, toggleCalls,
          shown, repeated, batchRequests, idsRequests, failures, lastCall,
          shArray, shInput, shShuffled, shAliased, shI,
          apiQuotes, apiFavorites, apiPreferences, apiResponse,
          favoriteRows, favoriteCalls, favoriteReply,
          fullscreenElement, fullscreenEvents, isFullscreen, wakeLock,
          heldLocks, locksGranted, enterCalls>>

shVars == <<shArray, shInput, shShuffled, shAliased, shI>>

apiVars == <<apiQuotes, apiFavorites, apiPreferences, apiResponse>>

favoriteVars == <<favoriteRows, favoriteCalls, favoriteReply>>

fullscreenVars == <<fullscreenElement, fullscreenEvents, isFullscreen, wakeLock,
                    heldLocks, locksGranted, enterCalls>>

hookVars == <<serverIds, favorites, addPending, adds, idsData, idsFetching,
              allQuoteIds, shuffledIds, currentIdIndex, quotesCache,
              currentQuote, isInitialized, cacheTag, fetchedIds, mutations,
              toggles, toggleCalls, shown, repeated, batchRequests,
              idsRequests, failures, lastCall>>

\* ------------------------------------------------------------------ values
\* currentQuote === null, quotesCache.get(id) === undefined
Null == [id |-> 0, isFavorited |-> FALSE]

\* new Map()
EmptyMap == <<>>

Size(c) == Cardinality(DOMAIN c)

\* quotesCache.get(id)
Lookup(c, id) == IF id \in DOMAIN c THEN [id |-> id, isFavorited |-> c[id]] ELSE Null

\* newCache.set(quote.id, quote)
MapSet(c, q) == [x \in (DOMAIN c) \cup {q.id} |-> IF x = q.id THEN q.isFavorited ELSE c[x]]

RECURSIVE MapSetAll(_, _)
MapSetAll(c, qs) == IF qs = <<>> THEN c ELSE MapSetAll(MapSet(c, Head(qs)), Tail(qs))

Bump(n) == Min(n + 1, CountCap)

\* the values a render of the hook closes over (useCallback closures)
Closure(h) == [shuffledIds |-> h.shuf, currentIdIndex |-> h.idx,
               quotesCache |-> h.cache, cacheTag |-> h.tag,
               allQuoteIds |-> h.all]

NoClosure == [shuffledIds |-> <<>>, currentIdIndex |-> 0, quotesCache |-> EmptyMap,
              cacheTag |-> 0, allQuoteIds |-> <<>>]

\* a free slot of toggles
Idle == [quoteId |-> 0, wasFavorited |-> FALSE, newCache |-> EmptyMap,
         wasCurrent |-> FALSE, method |-> "none", hasBody |-> FALSE]

\* a run of getNextQuote: the position it resumed at after its await, the
\* position it awaits a batch for, the position it displayed (-1: none), and
\* what it did and found when it displayed
NoCall == [resumedAt |-> -1, missAt |-> -1, shownAt |-> -1, prefetched |-> FALSE,
           reshuffled |-> FALSE, runningLow |-> FALSE, complete |-> FALSE]

\* the hook's state as one value; ch* are the dependency changes of a commit
Hook == [all |-> allQuoteIds, shuf |-> shuffledIds, idx |-> currentIdIndex,
         cache |-> quotesCache, tag |-> cacheTag, cur |-> currentQuote,
         init |-> isInitialized, fetched |-> fetchedIds, muts |-> mutations,
         shown |-> shown, repeated |-> repeated, batchRequests |-> batchRequests,
         op |-> lastCall, chShuf |-> FALSE]


\* ------------------------------------------------------- fetchBatchMutation
\* fetchBatchMutation.mutate(ids) / mutateAsync(ids): a new request becomes the
\* mutation the useMutation observer follows.  onSuccess closes over the
\* quotesCache of a render: the followed mutation is handed the options of
\* every new render, a mutation that is replaced keeps the options of the
\* last render before it was replaced (rc, rt: that render's quotesCache).
Mutate(h, ids, awaiting, c, k, rc, rt) ==
  LET old == [x \in DOMAIN h.muts |->
                IF h.muts[x].current
                  THEN [h.muts[x] EXCEPT !.current = FALSE, !.snap = rc, !.snapTag = rt]
                  ELSE h.muts[x]]
      new == [ids |-> ids, current |-> TRUE, snap |-> EmptyMap, snapTag |-> 0,
              awaiting |-> awaiting, c |-> c, nextIndex |-> k]
  IN  [h EXCEPT !.muts = old \o <<new>>, !.batchRequests = Bump(h.batchRequests)]

\* setCurrentQuote(quote) by the initial load or by getNextQuote: a display
Display(h, quote) ==
  [h EXCEPT !.cur = quote,
            !.shown = h.shown \cup {quote.id},
            !.repeated = h.repeated \/ quote.id \in h.shown]

\* ------------------------------------------------------- prefetchNextBatch
\* the test of line 96 with the unfetched ids of the window at currentIdIndex
PrefetchDue(c, nextBatchIds) ==
  /\ Len(nextBatchIds) > 0
  /\ Len(c.shuffledIds) - c.currentIdIndex <= PrefetchThreshold + BatchSize

prefetchNextBatch(h, c, rc, rt) ==
  IF Len(c.shuffledIds) = 0 THEN h
  ELSE LET nextBatchIds ==
             Unfetched(Slice(c.shuffledIds, c.currentIdIndex,
                             c.currentIdIndex + BatchSize), h.fetched)
       IN  IF PrefetchDue(c, nextBatchIds) /\ Len(nextBatchIds) > 0
             THEN [Mutate(h, nextBatchIds, FALSE, NoClosure, 0, rc, rt)
                     EXCEPT !.op.prefetched = TRUE]
             ELSE h

\* ------------------------------------------------------------ getNextQuote
\* the while loop from nextIndex = k up to the first display, await or end
RECURSIVE Scan(_, _, _)
Scan(c, k, fetched) ==
  IF k >= Len(c.shuffledIds) THEN [kind |-> "end", at |-> k, ids |-> <<>>]
  ELSE LET nextId == At(c.shuffledIds, k)
           quote == Lookup(c.quotesCache, nextId)
           batchEnd == Min(k + BatchSize, Len(c.shuffledIds))
           idsToFetch == Unfetched(Slice(c.shuffledIds, k, batchEnd), fetched)
       IN  IF quote = Null /\ nextId \notin fetched /\ Len(idsToFetch) > 0
             THEN [kind |-> "fetch", at |-> k, ids |-> idsToFetch]
           ELSE IF quote # Null
             THEN [kind |-> "show", at |-> k, ids |-> <<>>]
           ELSE Scan(c, k + 1, fetched)

\* after `await mutateAsync(idsToFetch)`: quote = quotesCache.get(nextId) reads
\* the Map of the render the call closed over, then the loop goes on
Resume(c, k, fetched) ==
  IF Lookup(c.quotesCache, At(c.shuffledIds, k)) # Null
    THEN [kind |-> "show", at |-> k, ids |-> <<>>]
    ELSE Scan(c, k + 1, fetched)

\* at position pos of the order shuf at most PrefetchThreshold fetched quotes
\* are left ahead although the order still has unfetched ids
RunningLow(shuf, pos, fetched) ==
  /\ Cardinality({x \in pos..(Len(shuf) - 1) : At(shuf, x) \in fetched})
       <= PrefetchThreshold
  /\ \E x \in 0..(Len(shuf) - 1) : At(shuf, x) \notin fetched

\* lines 133-148: display the quote found at position k
ShowAt(h, c, k, r, rc, rt) ==
  LET h1 == Display([h EXCEPT !.idx = k + 1, !.op.shownAt = k,
                              !.op.runningLow =
                                 RunningLow(c.shuffledIds, k + 1, h.fetched)],
                    Lookup(c.quotesCache, At(c.shuffledIds, k)))
      h2 == prefetchNextBatch(h1, c, rc, rt)
  IN  IF k + 1 >= Len(c.shuffledIds)
        THEN [h2 EXCEPT !.shuf = shuffleArray(c.allQuoteIds, r), !.idx = 0,
                        !.chShuf = TRUE, !.shown = {}, !.op.reshuffled = TRUE,
                        !.op.complete = (h2.shown = Range(c.allQuoteIds))]
        ELSE h2

\* what the loop does with the outcome of Scan / Resume
Proceed(h, c, res, r, rc, rt) ==
  IF res.kind = "show" THEN ShowAt(h, c, res.at, r, rc, rt)
  ELSE IF res.kind = "fetch"
    THEN [Mutate(h, res.ids, TRUE, c, res.at, rc, rt) EXCEPT !.op.missAt = res.at]
  ELSE h

\* the array shuffleArray is called on when the loop displays position res.at
ReshuffleInput(c, res) ==
  IF res.kind = "show" /\ res.at + 1 >= Len(c.shuffledIds) THEN c.allQuoteIds ELSE <<>>

\* ----------------------------------------------------------------- effects
\* lines 51-59: initialise and shuffle the ids once
\* (faulty variant of the guard: isInitialized not looked at)
InitGuardNoFlag(h, data) == Len(data) > 0
InitGuard(h, data) == Len(data) > 0 /\ ~h.init

\* the random choices a handler and its commits may consume: those of the
\* reshuffle of input in the handler, or of the init effect's shuffle of data
Draws(h, data, input) ==
  RandFor(IF InitGuard(h, data) /\ Len(data) > Len(input)
            THEN Len(data) ELSE Len(input))

InitEffect(rend, h, data, r) ==
  IF InitGuard(rend, data)
    THEN [h EXCEPT !.all = data, !.shuf = shuffleArray(data, r), !.init = TRUE,
                   !.chShuf = TRUE, !.shown = {}]
    ELSE h

\* lines 156-161: fetch the first batch (dependencies: shuffledIds, size)
\* (faulty variant: the whole order requested at once)
InitialLoadEffectWholeOrder(rend, h, sizePrev) ==
  IF /\ rend.chShuf \/ Size(rend.cache) # sizePrev
     /\ Len(rend.shuf) > 0 /\ Size(rend.cache) = 0
    THEN Mutate(h, rend.shuf, FALSE, NoClosure, 0, rend.cache, rend.tag)
    ELSE h
InitialLoadEffect(rend, h, sizePrev) ==
  IF /\ rend.chShuf \/ Size(rend.cache) # sizePrev
     /\ Len(rend.shuf) > 0 /\ Size(rend.cache) = 0
    THEN Mutate(h, Slice(rend.shuf, 0, BatchSize), FALSE, NoClosure, 0,
                rend.cache, rend.tag)
    ELSE h

\* lines 164-173: show the first quote once it is cached
\* (faulty variant: setCurrentIdIndex(1) left out)
InitialQuoteEffectKeepsIndex(rend, h) ==
  IF Size(rend.cache) > 0 /\ rend.cur = Null /\ Len(rend.shuf) > 0
    THEN LET firstQuote == Lookup(rend.cache, At(rend.shuf, 0))
         IN  IF firstQuote # Null THEN Display(h, firstQuote) ELSE h
    ELSE h

InitialQuoteEffect(rend, h) ==
  IF Size(rend.cache) > 0 /\ rend.cur = Null /\ Len(rend.shuf) > 0
    THEN LET firstQuote == Lookup(rend.cache, At(rend.shuf, 0))
         IN  IF firstQuote # Null
               THEN Display([h EXCEPT !.idx = 1], firstQuote)
               ELSE h
    ELSE h

\* one commit: every effect reads the committed state rend and queues updates
Commit(rend, sizePrev, data, r) ==
  LET h0 == [rend EXCEPT !.chShuf = FALSE]
      h1 == InitEffect(rend, h0, data, r)
      h2 == InitialLoadEffect(rend, h1, sizePrev)
  IN  InitialQuoteEffect(rend, h2)

\* the commit after a handler and the commit its effects cause; a third one
\* would find no dependency changed
RunEffects(h, sizePrev, data, r) ==
  Commit(Commit(h, sizePrev, data, r), Size(h.cache), data, r)


\* ----------------------------------------------------------- the database
\* limits written in the route handlers' schemas
BatchMaxIds == 50
MaxTextLength == 1000
MaxAuthorLength == 100

Users == 1..MaxUsers

\* session?.user?.id of a request without a signed-in user
NoUser == 0

\* the values of the quoteSource setting
Sources == {"PRELOADED", "CUSTOM", "FAVORITES", "BOTH"}

\* the rows the seed script creates: preloaded quotes without owner or category
SeedQuotes ==
  [id \in 1..NumPreloaded |-> [isPreloaded |-> TRUE, userId |-> NoUser, category |-> 0]]

\* the tables as one value
Db == [quotes |-> apiQuotes, favorites |-> apiFavorites,
       preferences |-> apiPreferences]

\* the elements of a set of numbers in ascending order
RECURSIVE Ascending(_)
Ascending(S) ==
  IF S = {} THEN <<>>
  ELSE LET m == CHOOSE x \in S : \A y \in S : x <= y
       IN  <<m>> \o Ascending(S \ {m})

\* a request: query parameters and JSON body ("" and 0: not given)
EmptyRequest ==
  [source |-> "", category |-> 0, json |-> TRUE, idsKind |-> "missing",
   ids |-> <<>>, quoteId |-> 0, quoteSource |-> "", textLength |-> 0,
   authorLength |-> 0]

\* NextResponse.json(...) together with the database calls made for it
Reply(db, status, error, ids, reads, writes) ==
  [status |-> status, error |-> error, ids |-> ids, favorited |-> {},
   reads |-> reads, writes |-> writes, db |-> db]

\* a handler that queries the database before it looks at the session
UnauthorizedAfterRead(db) == Reply(db, 401, "Unauthorized", <<>>, 1, 0)
\* if (!session?.user?.id) return 401
Unauthorized(db) == Reply(db, 401, "Unauthorized", <<>>, 0, 0)

\* the catch block's last return of every handler
InternalError(db, reads) == Reply(db, 500, "Internal server error", <<>>, reads, 0)

\* ------------------------------------------- POST /api/favorites, step by step
\* a free slot of favoriteCalls, and the reply before any request
NoFavoriteCall ==
  [userId |-> NoUser, quoteId |-> 0, pc |-> "none", status |-> 0, error |-> ""]

\* the row findUnique looks up by the key userId_quoteId
FavoriteExists(rows, userId, quoteId) == <<userId, quoteId>> \in Range(rows)

\* ------------------------------------------------------------ quote-service
\* a where clause that forgets the owner of a custom quote
WhereSourceAnyOwner(db, id, source, userId) ==
  LET quote == db.quotes[id]
  IN  CASE source = "PRELOADED" -> quote.isPreloaded
        [] source = "CUSTOM" -> ~quote.isPreloaded
        [] OTHER -> TRUE
\* the where clause getQuoteIds and GET /api/quotes build for a source
WhereSource(db, id, source, userId) ==
  LET quote == db.quotes[id]
  IN  CASE source = "PRELOADED" -> quote.isPreloaded
        [] source = "CUSTOM" -> quote.userId = userId /\ ~quote.isPreloaded
        [] OTHER -> \/ quote.isPreloaded
                    \/ quote.userId = userId /\ ~quote.isPreloaded

\* if (category) whereClause.category = category
WhereCategory(db, id, category) ==
  category = 0 \/ db.quotes[id].category = category

FavoriteIds(db, userId) == {f[2] : f \in {g \in db.favorites : g[1] = userId}}

\* getQuoteIds(options) of lib/quote-service.ts
getQuoteIds(options, db) ==
  IF options.source = "FAVORITES"
    THEN Ascending(FavoriteIds(db, options.userId))
    ELSE Ascending({id \in DOMAIN db.quotes :
                      /\ WhereSource(db, id, options.source, options.userId)
                      /\ WhereCategory(db, id, options.category)})

\* (faulty variant: the favorites query without its userId condition)
QuoteService_getQuotesByIdsAnyUser(db, ids, userId) ==
  LET quotes == Ascending({id \in DOMAIN db.quotes : id \in Range(ids)})
      favoriteSet == {f[2] : f \in {g \in db.favorites : g[2] \in Range(ids)}}
  IN  [x \in DOMAIN quotes |->
         [id |-> quotes[x], isFavorited |-> quotes[x] \in favoriteSet]]

\* getQuotesByIds(ids, userId) of lib/quote-service.ts: the stored quotes whose
\* id is in ids, each with the favourite status it has for userId
QuoteService_getQuotesByIds(db, ids, userId) ==
  LET quotes == Ascending({id \in DOMAIN db.quotes : id \in Range(ids)})
      favoriteSet == {f[2] : f \in {g \in db.favorites :
                                      g[1] = userId /\ g[2] \in Range(ids)}}
  IN  [x \in DOMAIN quotes |->
         [id |-> quotes[x], isFavorited |-> quotes[x] \in favoriteSet]]

\* ------------------------------------------------------------ route handlers
\* GET /api/quotes/ids
GET_quotes_ids(db, userId, request) ==
  IF userId = NoUser THEN Unauthorized(db)
  ELSE LET source == IF request.source = "" THEN "BOTH" ELSE request.source
       IN  Reply(db, 200, "",
                 getQuoteIds([source |-> source, userId |-> userId,
                              category |-> request.category], db), 1, 0)

\* batchSchema: ids is an array of 1 to 50 strings
batchSchema(request) ==
  /\ request.idsKind = "strings"
  /\ Len(request.ids) >= 1
  /\ Len(request.ids) <= BatchMaxIds

\* POST /api/quotes/batch
POST_quotes_batch(db, userId, request) ==
  IF userId = NoUser THEN Unauthorized(db)
  ELSE IF ~request.json THEN InternalError(db, 0)
  ELSE IF ~batchSchema(request)
    THEN Reply(db, 400, "Invalid request", <<>>, 0, 0)
  ELSE LET quotes == QuoteService_getQuotesByIds(db, request.ids, userId)
       IN  [Reply(db, 200, "", [x \in DOMAIN quotes |-> quotes[x].id], 2, 0)
              EXCEPT !.favorited =
                       {quotes[x].id : x \in {y \in DOMAIN quotes : quotes[y].isFavorited}}]

\* GET /api/quotes without random=true: first page of the selected source
GET_quotes(db, userId, request) ==
  IF userId = NoUser THEN Unauthorized(db)
  ELSE LET source == IF request.source # "" THEN request.source
                     ELSE IF db.preferences[userId] # "none"
                       THEN db.preferences[userId] ELSE "BOTH"
           favoriteIds == FavoriteIds(db, userId)
           found == {id \in DOMAIN db.quotes :
                       /\ IF source = "FAVORITES" THEN id \in favoriteIds
                          ELSE WhereSource(db, id, source, userId)
                       /\ WhereCategory(db, id, request.category)}
       IN  IF source = "FAVORITES" /\ favoriteIds = {}
             THEN Reply(db, 200, "", <<>>, 2, 0)
             ELSE Reply(db, 200, "", Ascending(found),
                        IF source = "FAVORITES" THEN 5 ELSE 4, 0)

\* createQuoteSchema: text of 1 to 1000, author of 1 to 100 characters
createQuoteSchema(request) ==
  /\ request.textLength >= 1 /\ request.textLength <= MaxTextLength
  /\ request.authorLength >= 1 /\ request.authorLength <= MaxAuthorLength

\* POST /api/quotes
POST_quotes(db, userId, request) ==
  IF userId = NoUser THEN Unauthorized(db)
  ELSE IF ~request.json THEN InternalError(db, 0)
  ELSE IF ~createQuoteSchema(request)
    THEN Reply(db, 400, "Invalid data", <<>>, 0, 0)
  ELSE LET quote == [isPreloaded |-> FALSE, userId |-> userId,
                     category |-> request.category]
       IN  Reply([db EXCEPT !.quotes = Append(db.quotes, quote)],
                 201, "", <<Len(db.quotes) + 1>>, 0, 1)

\* GET /api/favorites
GET_favorites(db, userId) ==
  IF userId = NoUser THEN Unauthorized(db)
  ELSE Reply(db, 200, "", Ascending(FavoriteIds(db, userId)), 1, 0)

\* favoriteSchema: quoteId is a string
favoriteSchema(request) == request.quoteId # 0

\* POST /api/favorites; a Favorite row refers to its Quote row
\* (include: { quote: true }), so create fails for a quote that does not exist
POST_favorites(db, userId, request) ==
  IF userId = NoUser THEN Unauthorized(db)
  ELSE IF ~request.json THEN InternalError(db, 0)
  ELSE IF ~favoriteSchema(request)
    THEN Reply(db, 400, "Invalid data", <<>>, 0, 0)
  ELSE IF <<userId, request.quoteId>> \in db.favorites
    THEN Reply(db, 400, "Quote already favorited", <<>>, 1, 0)
  ELSE IF request.quoteId \notin DOMAIN db.quotes THEN InternalError(db, 1)
  ELSE Reply([db EXCEPT !.favorites = @ \cup {<<userId, request.quoteId>>}],
             201, "", <<request.quoteId>>, 1, 1)

\* DELETE /api/favorites; prisma.favorite.delete throws when no row matches
DELETE_favorites(db, userId, request) ==
  IF userId = NoUser THEN Unauthorized(db)
  ELSE IF ~request.json THEN InternalError(db, 0)
  ELSE IF ~favoriteSchema(request)
    THEN Reply(db, 400, "Invalid data", <<>>, 0, 0)
  ELSE IF <<userId, request.quoteId>> \notin db.favorites
    THEN InternalError(db, 0)
  ELSE Reply([db EXCEPT !.favorites = @ \ {<<userId, request.quoteId>>}],
             200, "", <<>>, 0, 1)

\* GET /api/preferences: the row, created with the defaults when missing
GET_preferences(db, userId) ==
  IF userId = NoUser THEN Unauthorized(db)
  ELSE IF db.preferences[userId] = "none"
    THEN Reply([db EXCEPT !.preferences[userId] = "BOTH"], 200, "", <<>>, 1, 1)
  ELSE Reply(db, 200, "", <<>>, 1, 0)

\* preferencesSchema, the quoteSource field: optional, one of three values
preferencesSchema(request) ==
  request.quoteSource \in {"", "PRELOADED", "CUSTOM", "BOTH"}

\* PUT /api/preferences: upsert of the parsed fields
PUT_preferences(db, userId, request) ==
  IF userId = NoUser THEN Unauthorized(db)
  ELSE IF ~request.json THEN InternalError(db, 0)
  ELSE IF ~preferencesSchema(request)
    THEN Reply(db, 400, "Invalid data", <<>>, 0, 0)
  ELSE LET stored == IF request.quoteSource # "" THEN request.quoteSource
                     ELSE IF db.preferences[userId] # "none"
                       THEN db.preferences[userId] ELSE "BOTH"
       IN  Reply([db EXCEPT !.preferences[userId] = stored], 200, "", <<>>, 0, 1)

\* ----------------------------------------------------------------- actions
\* the hook's variables after a handler and its commits
Assign(h) ==
  /\ allQuoteIds' = h.all
  /\ shuffledIds' = h.shuf
  /\ currentIdIndex' = h.idx
  /\ quotesCache' = h.cache
  /\ cacheTag' = h.tag
  /\ currentQuote' = h.cur
  /\ isInitialized' = h.init
  /\ fetchedIds' = h.fetched
  /\ mutations' = h.muts
  /\ shown' = h.shown
  /\ repeated' = h.repeated
  /\ batchRequests' = h.batchRequests
  /\ lastCall' = h.op

\* the hook mounts: nothing loaded, the ids query is fetching
InitWith(n) ==
  /\ serverIds = [x \in 1..n |-> x]
  /\ favorites = {}
  /\ addPending = FALSE
  /\ adds = 0
  /\ idsData = <<>>
  /\ idsFetching = TRUE
  /\ allQuoteIds = <<>>
  /\ shuffledIds = <<>>
  /\ currentIdIndex = 0
  /\ quotesCache = EmptyMap
  /\ cacheTag = 0
  /\ currentQuote = Null
  /\ isInitialized = FALSE
  /\ fetchedIds = {}
  /\ mutations = <<>>
  /\ toggles = [t \in 1..MaxToggles |-> Idle]
  /\ toggleCalls = 0
  /\ shown = {}
  /\ repeated = FALSE
  /\ batchRequests = 0
  /\ idsRequests = 1
  /\ failures = 0
  /\ lastCall = NoCall
  /\ shArray = <<>>
  /\ shInput = <<>>
  /\ shShuffled = <<>>
  /\ shAliased = FALSE
  /\ shI = -2
  /\ apiQuotes = SeedQuotes
  /\ apiFavorites = {}
  /\ apiPreferences = [u \in Users |-> "none"]
  /\ apiResponse = [client |-> "none", endpoint |-> "none", userId |-> NoUser,
                     request |-> EmptyRequest, status |-> 0, error |-> "",
                     ids |-> <<>>, favorited |-> {}, reads |-> 0, writes |-> 0]
  /\ favoriteRows = <<>>
  /\ favoriteCalls = [c \in 1..MaxFavoriteCalls |-> NoFavoriteCall]
  /\ favoriteReply = NoFavoriteCall
  /\ fullscreenElement = FALSE
  /\ fullscreenEvents = 0
  /\ isFullscreen = FALSE
  /\ wakeLock = 0
  /\ heldLocks = {}
  /\ locksGranted = 0
  /\ enterCalls = [c \in 1..MaxEnterCalls |-> "none"]

Init == InitWith(NumQuotes)

\* the page is opened when the table holds one quote more
InitLonger == InitWith(NumQuotes + 1)

\* GET /api/quotes/ids answers: the query's data becomes the server's list
IdsResponse ==
  /\ idsFetching
  /\ idsFetching' = FALSE
  /\ idsData' = serverIds
  /\ \E r \in Draws(Hook, serverIds, <<>>) :
       Assign(RunEffects(Hook, Size(quotesCache), serverIds, r))
  /\ UNCHANGED <<shVars, apiVars, favoriteVars, fullscreenVars>>
  /\ UNCHANGED <<serverIds, favorites, addPending, adds, toggles, toggleCalls, idsRequests,
                 failures>>

\* react-query refetches the ids in the background (stale data, window focus)
RefetchIds ==
  /\ ~idsFetching
  /\ idsData # <<>>
  /\ idsFetching' = TRUE
  /\ UNCHANGED <<shVars, apiVars, favoriteVars, fullscreenVars>>
  /\ UNCHANGED <<lastCall, idsRequests, serverIds, favorites, addPending, adds, idsData, allQuoteIds,
                 shuffledIds, currentIdIndex, quotesCache, currentQuote,
                 isInitialized, cacheTag, fetchedIds, mutations, toggles, toggleCalls, shown,
                 repeated, batchRequests, failures>>

\* the page calls getNextQuote (button or rotation timer; both are rendered
\* only while currentQuote is set): the call runs up to its display, its
\* await or the end of the loop
GetNextQuote ==
  /\ currentQuote # Null
  /\ Len(shuffledIds) > 0
  /\ Len(mutations) < MaxInFlight
  /\ LET c == Closure(Hook)
         res == Scan(c, c.currentIdIndex, fetchedIds)
     IN  \E r \in Draws(Hook, idsData, ReshuffleInput(c, res)) :
           Assign(RunEffects(Proceed([Hook EXCEPT !.op = NoCall],
                                     c, res, r, quotesCache, cacheTag),
                             Size(quotesCache), idsData, r))
  /\ UNCHANGED <<shVars, apiVars, favoriteVars, fullscreenVars>>
  /\ UNCHANGED <<serverIds, favorites, addPending, adds, idsData, idsFetching,
                 toggles, toggleCalls, idsRequests, failures>>

\* getQuotesByIds(ids, userId): the stored quotes with the user's favourites
getQuotesByIds(ids) == [x \in DOMAIN ids |-> [id |-> ids[x], isFavorited |-> ids[x] \in favorites]]

\* POST /api/quotes/batch answers 200: onSuccess, then the getNextQuote call
\* that awaited the request (if any) goes on
BatchSuccess(n) ==
  LET m == mutations[n]
      base == IF m.current THEN quotesCache ELSE m.snap
      newCache == MapSetAll(base, getQuotesByIds(m.ids))
      h1 == [Hook EXCEPT !.cache = newCache, !.tag = 0,
                         !.fetched = fetchedIds \cup Range(m.ids),
                         !.muts = RemoveAt(mutations, n),
                         !.op = IF m.awaiting
                                  THEN [NoCall EXCEPT !.resumedAt = m.nextIndex]
                                  ELSE lastCall]
      res == IF m.awaiting THEN Resume(m.c, m.nextIndex, h1.fetched)
             ELSE [kind |-> "end", at |-> 0, ids |-> <<>>]
  IN  /\ \E r \in Draws(Hook, idsData, ReshuffleInput(m.c, res)) :
           Assign(RunEffects(Proceed(h1, m.c, res, r, quotesCache, cacheTag),
                             Size(quotesCache), idsData, r))
      /\ UNCHANGED <<shVars, apiVars, favoriteVars, fullscreenVars>>
      /\ UNCHANGED <<serverIds, favorites, addPending, adds, idsData, idsFetching,
                     toggles, toggleCalls, idsRequests, failures>>

\* the batch request fails: onError shows a toast, an awaiting getNextQuote
\* call ends with the rejected promise
\* (faulty variant: the ids of the failed request are marked as fetched)
BatchFailureMarksFetched(n) ==
  /\ failures < MaxFailures
  /\ failures' = failures + 1
  /\ mutations' = RemoveAt(mutations, n)
  /\ fetchedIds' = fetchedIds \cup Range(mutations[n].ids)
  /\ UNCHANGED <<shVars, apiVars, favoriteVars, fullscreenVars>>
  /\ UNCHANGED <<lastCall, serverIds, favorites, addPending, adds, idsData, idsFetching,
                 allQuoteIds, shuffledIds, currentIdIndex, quotesCache,
                 currentQuote, isInitialized, cacheTag, toggles, toggleCalls,
                 shown, repeated, batchRequests, idsRequests>>
BatchFailure(n) ==
  /\ failures < MaxFailures
  /\ failures' = failures + 1
  /\ mutations' = RemoveAt(mutations, n)
  /\ UNCHANGED <<shVars, apiVars, favoriteVars, fullscreenVars>>
  /\ UNCHANGED <<lastCall, serverIds, favorites, addPending, adds, idsData, idsFetching,
                 allQuoteIds, shuffledIds, currentIdIndex, quotesCache,
                 currentQuote, isInitialized, cacheTag, fetchedIds, toggles, toggleCalls,
                 shown, repeated, batchRequests, idsRequests>>

\* POST /api/quotes creates the quote the page submitted (the model adds
\* quotes only once the first list of ids is loaded, to bound the list)
AddQuote ==
  /\ adds < MaxAdds
  /\ isInitialized
  /\ ~addPending
  /\ adds' = adds + 1
  /\ addPending' = TRUE
  /\ serverIds' = Append(serverIds, NumQuotes + adds + 1)
  /\ UNCHANGED <<shVars, apiVars, favoriteVars, fullscreenVars>>
  /\ UNCHANGED <<lastCall, favorites, idsData, idsFetching, allQuoteIds, shuffledIds,
                 currentIdIndex, quotesCache, currentQuote, isInitialized,
                 cacheTag, fetchedIds, mutations, toggles, toggleCalls, shown, repeated,
                 batchRequests, idsRequests, failures>>

\* reset(): lines 215-223
reset(h) ==
  [h EXCEPT !.init = FALSE, !.shuf = <<>>, !.chShuf = TRUE, !.idx = 0,
            !.cache = EmptyMap, !.tag = 0, !.cur = Null, !.fetched = {},
            !.shown = {}, !.batchRequests = 0]

\* addQuoteMutation.onSuccess: invalidate the ids query, reset the hook
AddQuoteOnSuccess ==
  /\ addPending
  /\ Len(mutations) < MaxInFlight
  /\ addPending' = FALSE
  /\ idsFetching' = TRUE
  /\ idsRequests' = 2
  /\ failures' = 0
  /\ \E r \in Draws(reset(Hook), idsData, <<>>) :
       Assign(RunEffects(reset(Hook),
                         Size(quotesCache), idsData, r))
  /\ UNCHANGED <<shVars, apiVars, favoriteVars, fullscreenVars>>
  /\ UNCHANGED <<serverIds, favorites, adds, idsData, toggles, toggleCalls>>

\* -------------------------------------------------------------- favourites
\* POST /api/favorites for the signed-in user (route lines 78-131)
FavoritesPOST(quoteId, favs) ==
  IF quoteId \in favs
    THEN [status |-> 400, favorites |-> favs]
    ELSE [status |-> 201, favorites |-> favs \cup {quoteId}]

\* DELETE /api/favorites for the signed-in user (route lines 134-169):
\* request.json() throws on a request without a body, prisma.favorite.delete
\* throws when there is no such favourite; both end in the 500 answer
FavoritesDELETE(hasBody, quoteId, favs) ==
  IF ~hasBody THEN [status |-> 500, favorites |-> favs]
  ELSE IF quoteId \in favs
    THEN [status |-> 200, favorites |-> favs \ {quoteId}]
    ELSE [status |-> 500, favorites |-> favs]

\* response.ok
Ok(status) == status >= 200 /\ status <= 299

\* the Map object of toggle t is no longer written: forget who made it;
\* with write = TRUE, newCache.set(quoteId, quote) first changes that object
\* wherever it is referenced
Settle(h, t, write, quote) ==
  LET upd(map, tag) == IF tag = t /\ write THEN MapSet(map, quote) ELSE map
      untag(tag) == IF tag = t THEN 0 ELSE tag
  IN  [h EXCEPT
         !.cache = upd(h.cache, h.tag),
         !.tag = untag(h.tag),
         !.muts = [x \in DOMAIN h.muts |->
                     [h.muts[x] EXCEPT
                        !.snap = upd(h.muts[x].snap, h.muts[x].snapTag),
                        !.snapTag = untag(h.muts[x].snapTag),
                        !.c.quotesCache = upd(h.muts[x].c.quotesCache,
                                              h.muts[x].c.cacheTag),
                        !.c.cacheTag = untag(h.muts[x].c.cacheTag)]]]

\* toggleFavorite(currentQuote.id) up to its fetch (lines 176-200)
Flip(quote) == [quote EXCEPT !.isFavorited = ~quote.isFavorited]

ToggleFavorite ==
  /\ currentQuote # Null
  /\ toggleCalls < MaxToggleCalls
  /\ \E t \in 1..MaxToggles :
       /\ toggles[t] = Idle
       /\ \A u \in 1..(t - 1) : toggles[u] # Idle
       /\ LET quoteId == currentQuote.id
              quote == Lookup(quotesCache, quoteId)
              updatedQuote == Flip(quote)
              newCache == MapSet(quotesCache, updatedQuote)
              h1 == [Hook EXCEPT !.cache = newCache, !.tag = t,
                                 !.cur = IF currentQuote.id = quoteId
                                           THEN updatedQuote ELSE currentQuote,
                                 !.op = lastCall]
          IN  /\ quote # Null
              /\ toggles' = [toggles EXCEPT ![t] =
                   [quoteId |-> quoteId, wasFavorited |-> quote.isFavorited,
                    newCache |-> newCache,
                    wasCurrent |-> currentQuote.id = quoteId,
                    method |-> IF quote.isFavorited THEN "DELETE" ELSE "POST",
                    hasBody |-> ~quote.isFavorited]]
              /\ \E r \in Draws(h1, idsData, <<>>) :
                   Assign(RunEffects(h1, Size(quotesCache), idsData, r))
  /\ toggleCalls' = toggleCalls + 1
  /\ UNCHANGED <<shVars, apiVars, favoriteVars, fullscreenVars>>
  /\ UNCHANGED <<serverIds, favorites, addPending, adds, idsData, idsFetching,
                 idsRequests, failures>>

\* the catch block of toggleFavorite (lines 203-211)
\* (faulty variant: setCurrentQuote(quote) left out)
RevertCacheOnly(h, tg) ==
  LET quote == [id |-> tg.quoteId, isFavorited |-> tg.wasFavorited]
  IN  [h EXCEPT !.cache = MapSet(tg.newCache, quote), !.tag = 0]
Revert(h, tg) ==
  LET quote == [id |-> tg.quoteId, isFavorited |-> tg.wasFavorited]
  IN  [h EXCEPT !.cache = MapSet(tg.newCache, quote), !.tag = 0,
                !.cur = IF tg.wasCurrent THEN quote ELSE h.cur]

\* the favourites endpoint answers the request of slot t
ToggleResponse(t) ==
  LET tg == toggles[t]
      quote == [id |-> tg.quoteId, isFavorited |-> tg.wasFavorited]
      res == IF tg.method = "POST" THEN FavoritesPOST(tg.quoteId, favorites)
             ELSE FavoritesDELETE(tg.hasBody, tg.quoteId, favorites)
      h0 == Hook
      h1 == IF Ok(res.status) THEN Settle(h0, t, FALSE, quote)
            ELSE Revert(Settle(h0, t, TRUE, quote), tg)
  IN  /\ tg # Idle
      /\ favorites' = res.favorites
      /\ toggles' = [toggles EXCEPT ![t] = Idle]
      /\ \E r \in Draws(h1, idsData, <<>>) :
           Assign(RunEffects(h1, Size(quotesCache), idsData, r))
      /\ UNCHANGED <<shVars, apiVars, favoriteVars, fullscreenVars>>
      /\ UNCHANGED <<serverIds, addPending, adds, idsData, idsFetching,
                     toggleCalls, idsRequests, failures>>

\* fetch() itself rejects: the request of slot t never reached the server
ToggleNetworkError(t) ==
  LET tg == toggles[t]
      quote == [id |-> tg.quoteId, isFavorited |-> tg.wasFavorited]
      h1 == Revert(Settle(Hook, t, TRUE, quote), tg)
  IN  /\ tg # Idle
      /\ toggles' = [toggles EXCEPT ![t] = Idle]
      /\ \E r \in Draws(h1, idsData, <<>>) :
           Assign(RunEffects(h1, Size(quotesCache), idsData, r))
      /\ UNCHANGED <<shVars, apiVars, favoriteVars, fullscreenVars>>
      /\ UNCHANGED <<serverIds, favorites, addPending, adds, idsData,
                     idsFetching, toggleCalls, idsRequests, failures>>

\* ------------------------------------------------- shuffleArray on its own
\* the arrays shuffleArray is called on
Arrays == UNION {[1..n -> 1..MaxValue] : n \in 0..MaxShuffleLen}

\* const shuffled = [...array]: a new array with the elements of array
Spread(array) == [elems |-> array, aliased |-> FALSE]

\* shuffleArray(array) is called: the copy, and i = shuffled.length - 1
ShuffleCall ==
  /\ shI = -2
  /\ \E array \in Arrays :
       /\ shArray' = array
       /\ shInput' = array
       /\ shShuffled' = Spread(array).elems
       /\ shAliased' = Spread(array).aliased
       /\ shI' = Len(array) - 1
  /\ UNCHANGED <<hookVars, apiVars, favoriteVars, fullscreenVars>>

\* one iteration of the loop (i > 0): pick j, swap, i--
ShuffleStep ==
  /\ shI > 0
  /\ \E j \in RandomIndex(shI) :
       /\ shShuffled' = Swap(shShuffled, shI, j)
       /\ shArray' = IF shAliased THEN Swap(shShuffled, shI, j) ELSE shArray
  /\ shI' = shI - 1
  /\ UNCHANGED <<shInput, shAliased>>
  /\ UNCHANGED <<hookVars, apiVars, favoriteVars, fullscreenVars>>

\* the loop is over: return shuffled
ShuffleReturn ==
  /\ shI \in {-1, 0}
  /\ shI' = -2
  /\ UNCHANGED <<shArray, shInput, shShuffled, shAliased>>
  /\ UNCHANGED <<hookVars, apiVars, favoriteVars, fullscreenVars>>

\* ---------------------------------------------------------- API requests
\* who sends a request: nobody signed in, or one of the users
Callers == {NoUser} \cup Users

\* an id array of n strings, taken from the ids 1..MaxCustomQuotes + NumPreloaded + 1
IdArray(n) == [i \in 1..n |-> 1 + (i % (NumPreloaded + MaxCustomQuotes + 1))]

\* the bodies sent to POST /api/quotes/batch
BatchRequests ==
  {[EmptyRequest EXCEPT !.json = FALSE]}
    \cup {[EmptyRequest EXCEPT !.idsKind = k] : k \in {"missing", "notArray"}}
    \cup {[EmptyRequest EXCEPT !.idsKind = "notStrings", !.ids = IdArray(1)]}
    \cup {[EmptyRequest EXCEPT !.idsKind = "strings", !.ids = IdArray(n)] :
            n \in {0, 1, 2, BatchMaxIds, BatchMaxIds + 1}}

\* the queries sent to GET /api/quotes/ids and GET /api/quotes
SourceRequests ==
  {[EmptyRequest EXCEPT !.source = s, !.category = c] :
     s \in Sources \cup {"", "OTHER"}, c \in 0..MaxCategory}

\* the bodies sent to POST and DELETE /api/favorites
FavoriteRequests ==
  {[EmptyRequest EXCEPT !.json = FALSE]}
    \cup {[EmptyRequest EXCEPT !.quoteId = q] :
            q \in 0..(NumPreloaded + MaxCustomQuotes + 1)}

\* the bodies sent to POST /api/quotes
CreateRequests ==
  {[EmptyRequest EXCEPT !.json = FALSE]}
    \cup {[EmptyRequest EXCEPT !.textLength = t, !.authorLength = 1, !.category = c] :
            t \in {0, 1, MaxTextLength, MaxTextLength + 1}, c \in 0..MaxCategory}
    \cup {[EmptyRequest EXCEPT !.textLength = 1, !.authorLength = a, !.category = c] :
            a \in {0, MaxAuthorLength, MaxAuthorLength + 1}, c \in 0..MaxCategory}

\* the bodies sent to PUT /api/preferences
PreferenceRequests ==
  {[EmptyRequest EXCEPT !.json = FALSE]}
    \cup {[EmptyRequest EXCEPT !.quoteSource = s] : s \in Sources \cup {"", "OTHER"}}

\* the handler's answer a goes out and its database writes are stored
\* (the tables stay within the bounds)
Respond(client, endpoint, userId, request, a) ==
  /\ Len(a.db.quotes) <= NumPreloaded + MaxCustomQuotes
  /\ Cardinality(a.db.favorites) <= MaxFavorites
  /\ Cardinality({u \in Users : a.db.preferences[u] # "none"}) <= MaxPreferenceRows
  /\ apiQuotes' = a.db.quotes
  /\ apiFavorites' = a.db.favorites
  /\ apiPreferences' = a.db.preferences
  /\ apiResponse' = [client |-> client, endpoint |-> endpoint, userId |-> userId,
                     request |-> request, status |-> a.status, error |-> a.error,
                     ids |-> a.ids, favorited |-> a.favorited, reads |-> a.reads,
                     writes |-> a.writes]
  /\ UNCHANGED <<hookVars, shVars, favoriteVars, fullscreenVars>>

ApiQuoteIds ==
  \E userId \in Callers, request \in SourceRequests :
    Respond("any", "GET /api/quotes/ids", userId, request,
            GET_quotes_ids(Db, userId, request))

ApiQuotesBatch ==
  \E userId \in Callers, request \in BatchRequests :
    Respond("any", "POST /api/quotes/batch", userId, request,
            POST_quotes_batch(Db, userId, request))

ApiQuotes ==
  \E userId \in Callers, request \in SourceRequests :
    Respond("any", "GET /api/quotes", userId, request,
            GET_quotes(Db, userId, request))

ApiCreateQuote ==
  \E userId \in Callers, request \in CreateRequests :
    Respond("any", "POST /api/quotes", userId, request,
            POST_quotes(Db, userId, request))

ApiFavorites ==
  \E userId \in Callers :
    Respond("any", "GET /api/favorites", userId, EmptyRequest,
            GET_favorites(Db, userId))

ApiAddFavorite ==
  \E userId \in Callers, request \in FavoriteRequests :
    Respond("any", "POST /api/favorites", userId, request,
            POST_favorites(Db, userId, request))

ApiRemoveFavorite ==
  \E userId \in Callers, request \in FavoriteRequests :
    Respond("any", "DELETE /api/favorites", userId, request,
            DELETE_favorites(Db, userId, request))

ApiPreferences ==
  \E userId \in Callers :
    Respond("any", "GET /api/preferences", userId, EmptyRequest,
            GET_preferences(Db, userId))

ApiUpdatePreferences ==
  \E userId \in Callers, request \in PreferenceRequests :
    Respond("any", "PUT /api/preferences", userId, request,
            PUT_preferences(Db, userId, request))

\* the hook's ids query of a signed-in user: fetch('/api/quotes/ids?source=BOTH')
HookFetchIds ==
  \E userId \in Users :
    LET request == [EmptyRequest EXCEPT !.source = "BOTH"]
    IN  Respond("useOptimizedQuotes", "GET /api/quotes/ids", userId, request,
                GET_quotes_ids(Db, userId, request))

\* ------------------------------------------ POST /api/favorites, interleaved
\* a signed-in user's request with a valid body reaches the handler
FavoritePostArrives ==
  /\ \E c \in 1..MaxFavoriteCalls, userId \in Users,
        quoteId \in 1..(NumPreloaded + 1) :
       /\ favoriteCalls[c].pc = "none"
       /\ favoriteCalls' =
            [favoriteCalls EXCEPT ![c] =
               [NoFavoriteCall EXCEPT !.userId = userId, !.quoteId = quoteId,
                                      !.pc = "findUnique"]]
  /\ UNCHANGED <<favoriteRows, favoriteReply>>
  /\ UNCHANGED <<hookVars, shVars, apiVars, fullscreenVars>>

\* the handler answers and its slot becomes free
FavoriteAnswer(c, status, error) ==
  /\ favoriteReply' = [favoriteCalls[c] EXCEPT !.pc = "done", !.status = status,
                                               !.error = error]
  /\ favoriteCalls' = [favoriteCalls EXCEPT ![c] = NoFavoriteCall]

\* prisma.favorite.findUnique and the test of `existing`
FavoriteFindUnique(c) ==
  /\ favoriteCalls[c].pc = "findUnique"
  /\ IF FavoriteExists(favoriteRows, favoriteCalls[c].userId, favoriteCalls[c].quoteId)
       THEN FavoriteAnswer(c, 400, "Quote already favorited")
       ELSE /\ favoriteCalls' = [favoriteCalls EXCEPT ![c].pc = "create"]
            /\ UNCHANGED favoriteReply
  /\ UNCHANGED favoriteRows
  /\ UNCHANGED <<hookVars, shVars, apiVars, fullscreenVars>>

\* prisma.favorite.create: the insert is refused when the row exists (the key
\* userId_quoteId is unique) or the quote does not; the handler's catch block
\* then answers 500
FavoriteCreate(c) ==
  /\ favoriteCalls[c].pc = "create"
  /\ LET userId == favoriteCalls[c].userId
         quoteId == favoriteCalls[c].quoteId
     IN  IF \/ FavoriteExists(favoriteRows, userId, quoteId)
            \/ quoteId \notin DOMAIN apiQuotes
           THEN /\ FavoriteAnswer(c, 500, "Internal server error")
                /\ UNCHANGED favoriteRows
           ELSE /\ FavoriteAnswer(c, 201, "")
                /\ favoriteRows' = Append(favoriteRows, <<userId, quoteId>>)
  /\ UNCHANGED <<hookVars, shVars, apiVars, fullscreenVars>>
\* ------------------------------------------------ fullscreen and wake lock
\* a click on the fullscreen button of the normal view: enterFullscreen starts
\* and awaits document.documentElement.requestFullscreen()
EnterFullscreen(c) ==
  /\ ~isFullscreen
  /\ enterCalls[c] = "none"
  /\ enterCalls' = [enterCalls EXCEPT ![c] = "requestFullscreen"]
  /\ UNCHANGED <<fullscreenElement, fullscreenEvents, isFullscreen, wakeLock,
                 heldLocks, locksGranted>>
  /\ UNCHANGED <<hookVars, shVars, apiVars, favoriteVars>>

\* the browser enters fullscreen and fires fullscreenchange (when the document
\* was not in fullscreen yet); the call goes on to navigator.wakeLock.request
FullscreenGranted(c) ==
  /\ enterCalls[c] = "requestFullscreen"
  /\ fullscreenEvents < MaxEvents
  /\ fullscreenElement' = TRUE
  /\ fullscreenEvents' = IF fullscreenElement THEN fullscreenEvents
                         ELSE fullscreenEvents + 1
  /\ enterCalls' = [enterCalls EXCEPT ![c] = "wakeLock.request"]
  /\ UNCHANGED <<isFullscreen, wakeLock, heldLocks, locksGranted>>
  /\ UNCHANGED <<hookVars, shVars, apiVars, favoriteVars>>

\* requestFullscreen() rejects: the outer catch block
FullscreenDenied(c) ==
  /\ enterCalls[c] = "requestFullscreen"
  /\ enterCalls' = [enterCalls EXCEPT ![c] = "none"]
  /\ UNCHANGED <<fullscreenElement, fullscreenEvents, isFullscreen, wakeLock,
                 heldLocks, locksGranted>>
  /\ UNCHANGED <<hookVars, shVars, apiVars, favoriteVars>>

\* the browser grants the wake lock: setWakeLock(lock)
WakeLockGranted(c) ==
  /\ enterCalls[c] = "wakeLock.request"
  /\ locksGranted < MaxLocks
  /\ locksGranted' = locksGranted + 1
  /\ heldLocks' = heldLocks \cup {locksGranted + 1}
  /\ wakeLock' = locksGranted + 1
  /\ enterCalls' = [enterCalls EXCEPT ![c] = "none"]
  /\ UNCHANGED <<fullscreenElement, fullscreenEvents, isFullscreen>>
  /\ UNCHANGED <<hookVars, shVars, apiVars, favoriteVars>>

\* wakeLock.request rejects: the inner catch block
WakeLockDenied(c) ==
  /\ enterCalls[c] = "wakeLock.request"
  /\ enterCalls' = [enterCalls EXCEPT ![c] = "none"]
  /\ UNCHANGED <<fullscreenElement, fullscreenEvents, isFullscreen, wakeLock,
                 heldLocks, locksGranted>>
  /\ UNCHANGED <<hookVars, shVars, apiVars, favoriteVars>>

\* the document leaves fullscreen (Escape, or exitFullscreen by a click on
\* the fullscreen view) and the browser fires fullscreenchange
ExitFullscreen ==
  /\ fullscreenElement
  /\ fullscreenEvents < MaxEvents
  /\ fullscreenElement' = FALSE
  /\ fullscreenEvents' = fullscreenEvents + 1
  /\ UNCHANGED <<isFullscreen, wakeLock, heldLocks, locksGranted, enterCalls>>
  /\ UNCHANGED <<hookVars, shVars, apiVars, favoriteVars>>

\* handleFullscreenChange, registered by the effect of the latest render
handleFullscreenChange ==
  /\ fullscreenEvents > 0
  /\ fullscreenEvents' = fullscreenEvents - 1
  /\ isFullscreen' = fullscreenElement
  /\ IF ~fullscreenElement /\ wakeLock # 0
       THEN /\ heldLocks' = heldLocks \ {wakeLock}
            /\ wakeLock' = 0
       ELSE UNCHANGED <<heldLocks, wakeLock>>
  /\ UNCHANGED <<fullscreenElement, locksGranted, enterCalls>>
  /\ UNCHANGED <<hookVars, shVars, apiVars, favoriteVars>>
\* --------------------------------------------------------- specifications
\* browsing and favourites up to the first reset(): the quote that AddQuote
\* creates is on the server, addQuoteMutation.onSuccess has not run yet
Next ==
  \/ IdsResponse
  \/ RefetchIds
  \/ AddQuote
  \/ GetNextQuote
  \/ \E n \in DOMAIN mutations : BatchSuccess(n)
  \/ \E n \in DOMAIN mutations : BatchFailure(n)
  \/ ToggleFavorite
  \/ \E t \in 1..MaxToggles : ToggleResponse(t)
  \/ \E t \in 1..MaxToggles : ToggleNetworkError(t)

Spec == Init /\ [][Next]_vars

\* browsing while the page adds a quote and resets the hook
NextReset ==
  \/ IdsResponse
  \/ GetNextQuote
  \/ \E n \in DOMAIN mutations : BatchSuccess(n)
  \/ \E n \in DOMAIN mutations : BatchFailure(n)
  \/ AddQuote
  \/ AddQuoteOnSuccess

SpecReset == Init /\ [][NextReset]_vars

\* browsing a list that is longer than a batch and its prefetch window
NextBrowse ==
  \/ IdsResponse
  \/ GetNextQuote
  \/ \E n \in DOMAIN mutations : BatchSuccess(n)
  \/ \E n \in DOMAIN mutations : BatchFailure(n)

SpecBrowse == InitLonger /\ [][NextBrowse]_vars

\* calls of shuffleArray on every array of Arrays
NextShuffle ==
  \/ ShuffleCall
  \/ ShuffleStep
  \/ ShuffleReturn

SpecShuffle == Init /\ [][NextShuffle]_vars

\* browsing and favouriting with every request answered by the server
NextOnline ==
  \/ IdsResponse
  \/ GetNextQuote
  \/ \E n \in DOMAIN mutations : BatchSuccess(n)
  \/ ToggleFavorite
  \/ \E t \in 1..MaxToggles : ToggleResponse(t)

SpecOnline == Init /\ [][NextOnline]_vars

\* requests to the route handlers, by anybody and by the hook
NextApi ==
  \/ ApiQuoteIds
  \/ ApiQuotesBatch
  \/ ApiQuotes
  \/ ApiCreateQuote
  \/ ApiFavorites
  \/ ApiAddFavorite
  \/ ApiRemoveFavorite
  \/ ApiPreferences
  \/ ApiUpdatePreferences
  \/ HookFetchIds

SpecApi == Init /\ [][NextApi]_vars

\* POST /api/favorites requests of signed-in users, handled concurrently
NextFavorites ==
  \/ FavoritePostArrives
  \/ \E c \in 1..MaxFavoriteCalls : FavoriteFindUnique(c)
  \/ \E c \in 1..MaxFavoriteCalls : FavoriteCreate(c)

SpecFavorites == Init /\ [][NextFavorites]_vars
\* the quotes page's fullscreen mode
NextFullscreen ==
  \/ \E c \in 1..MaxEnterCalls : EnterFullscreen(c)
  \/ \E c \in 1..MaxEnterCalls : FullscreenGranted(c)
  \/ \E c \in 1..MaxEnterCalls : FullscreenDenied(c)
  \/ \E c \in 1..MaxEnterCalls : WakeLockGranted(c)
  \/ \E c \in 1..MaxEnterCalls : WakeLockDenied(c)
  \/ ExitFullscreen
  \/ handleFullscreenChange

SpecFullscreen == Init /\ [][NextFullscreen]_vars
\* ------------------------------------------------------------------ claims
\* C1: within one pass over the shuffled order no quote id is displayed
\* twice by the initial load and the getNextQuote calls
C1_NoRepeatInPass == ~repeated

\* C2: with no failed batch request, a reshuffle happens only when every id
\* of allQuoteIds has been displayed in the pass (no id is skipped)
C2_ReshuffleAfterAllShown ==
  (lastCall.reshuffled /\ failures = 0) => lastCall.complete

\* C3: a getNextQuote call that awaited the batch for an uncached position
\* displays the quote of that position when it goes on after the batch
\* succeeded
C3_MissIsDisplayed ==
  lastCall.resumedAt >= 0 => lastCall.shownAt = lastCall.resumedAt

\* C4: a getNextQuote call that displays a quote and leaves at most
\* PrefetchThreshold fetched quotes ahead, with unfetched ids in the order,
\* sends a prefetch request
C4_PrefetchWhenRunningLow ==
  (lastCall.shownAt >= 0 /\ lastCall.runningLow) => lastCall.prefetched

\* C5: when a pass has displayed every id and no request failed, the hook
\* asked for the ids once and sent at most ceil(N / batchSize) batch requests
CeilDiv(a, b) == (a + b - 1) \div b

C5_RequestBudget ==
  (lastCall.reshuffled /\ lastCall.complete /\ failures = 0)
    => /\ idsRequests = 1
       /\ batchRequests <= CeilDiv(Len(allQuoteIds), BatchSize)

\* C6: when the loop of shuffleArray is over, shuffled is a permutation of
\* the argument and the argument's array still holds what it held
C6_ShuffleIsPermutation ==
  shI <= 0 => IsPermutation(shShuffled, shInput) /\ shArray = shInput

C6_Witness ==
  /\ shI = 0
  /\ Len(shInput) = MaxShuffleLen
  /\ shShuffled # shInput
  /\ \E v \in Range(shInput) : Count(shInput, v) > 1

\* C7: once initialised (and with no reset), an ids response that brings a
\* different list changes none of allQuoteIds, shuffledIds, currentIdIndex,
\* quotesCache, currentQuote
C7_LaterIdsIgnored ==
  [][(isInitialized /\ idsData' # idsData)
       => UNCHANGED <<allQuoteIds, shuffledIds, currentIdIndex, quotesCache,
                      currentQuote>>]_vars

C7_Witness ==
  /\ isInitialized
  /\ Len(idsData) > Len(allQuoteIds)
  /\ currentQuote # Null

\* C8: a step that starts with no quote displayed and ends with the first
\* quote of the shuffled order in the cache ends with that quote displayed
\* and currentIdIndex = 1
C8_InitialLoad ==
  [][(currentQuote = Null /\ Len(shuffledIds') > 0
        /\ At(shuffledIds', 0) \in DOMAIN quotesCache')
       => (currentQuote'.id = At(shuffledIds', 0) /\ currentIdIndex' = 1)]_vars

C8_Witness ==
  /\ lastCall = NoCall
  /\ Len(shuffledIds) > 0
  /\ currentQuote.id = At(shuffledIds, 0)
  /\ currentIdIndex = 1

\* C9: after reset(), once the refetched ids have arrived, the shuffled order
\* is a permutation of the refetched list
C9_ResetUsesRefetchedIds ==
  (adds > 0 /\ ~addPending /\ ~idsFetching)
    => IsPermutation(shuffledIds, idsData)

\* C10: toggleFavorite flips isFavorited of the cached quote and of
\* currentQuote at once; when its request fails, both are back at the value
\* from before the toggle
C10_OptimisticRollback ==
  [][\A t \in 1..MaxToggles :
       /\ (toggles[t] = Idle /\ toggles'[t] # Idle)
            => /\ Lookup(quotesCache', currentQuote.id)
                    = Flip(Lookup(quotesCache, currentQuote.id))
               /\ currentQuote' = Flip(Lookup(quotesCache, currentQuote.id))
       /\ (toggles[t] # Idle /\ toggles'[t] = Idle /\ favorites' = favorites)
            => /\ Lookup(quotesCache', toggles[t].quoteId)
                    = [id |-> toggles[t].quoteId,
                       isFavorited |-> toggles[t].wasFavorited]
               /\ currentQuote'.id = toggles[t].quoteId
                    => currentQuote'.isFavorited = toggles[t].wasFavorited]_vars

C10_Witness ==
  /\ toggleCalls = 1
  /\ toggles[1] = Idle
  /\ favorites = {}
  /\ lastCall = NoCall
  /\ currentQuote # Null
  /\ Lookup(quotesCache, currentQuote.id) = currentQuote
  /\ ~currentQuote.isFavorited

\* C11: when the server has answered the DELETE request toggleFavorite sent
\* for a favourited quote, the favourite is removed on the server and the
\* cached quote is not favourited
C11_UnfavoriteAccepted ==
  [][\A t \in 1..MaxToggles :
       (toggles[t].method = "DELETE" /\ toggles'[t] = Idle)
         => /\ toggles[t].quoteId \notin favorites'
            /\ ~Lookup(quotesCache', toggles[t].quoteId).isFavorited]_vars

\* C12: a request without a signed-in user is answered 401 by every handler,
\* which reads and writes no table
C12_UnauthorizedTouchesNothing ==
  [][(apiResponse'.userId = NoUser /\ apiResponse'.endpoint # "none")
       => /\ apiResponse'.status = 401
          /\ apiResponse'.error = "Unauthorized"
          /\ apiResponse'.reads = 0
          /\ apiResponse'.writes = 0
          /\ UNCHANGED <<apiQuotes, apiFavorites, apiPreferences>>]_vars

\* an unauthenticated write request arrived while another user's rows exist
C12_Witness ==
  /\ apiResponse.userId = NoUser
  /\ apiResponse.endpoint = "DELETE /api/favorites"
  /\ apiResponse.request.json
  /\ \E u \in Users : <<u, apiResponse.request.quoteId>> \in apiFavorites
  /\ apiResponse.status = 401

\* C13: getQuoteIds returns exactly the ids of the selected source (PRELOADED:
\* the preloaded quotes, CUSTOM: the user's own quotes, FAVORITES: the user's
\* favourites, BOTH and an unrecognised source: preloaded and own quotes),
\* within the category when one is given, and for a source other than
\* FAVORITES never a custom quote of another user
C13_IdsOfSelectedSource ==
  \A userId \in Users, source \in Sources \cup {"OTHER"}, category \in 0..MaxCategory :
    LET ids == getQuoteIds([source |-> source, userId |-> userId,
                            category |-> category], Db)
        preloaded == {id \in DOMAIN apiQuotes : apiQuotes[id].isPreloaded}
        own == {id \in DOMAIN apiQuotes :
                  ~apiQuotes[id].isPreloaded /\ apiQuotes[id].userId = userId}
        selected ==
          CASE source = "PRELOADED" -> preloaded
            [] source = "CUSTOM" -> own
            [] source = "FAVORITES" ->
                 {f[2] : f \in {g \in apiFavorites : g[1] = userId}}
            [] OTHER -> preloaded \cup own
    IN  /\ category = 0 => Range(ids) = selected
        /\ Range(ids) \subseteq selected
        /\ Len(ids) = Cardinality(Range(ids))
        /\ source # "FAVORITES" =>
             \A id \in Range(ids) :
               apiQuotes[id].isPreloaded \/ apiQuotes[id].userId = userId

\* GET /api/quotes/ids answered a user with the BOTH list while a custom quote
\* of another user was stored
C13_Witness ==
  /\ apiResponse.endpoint = "GET /api/quotes/ids"
  /\ apiResponse.status = 200
  /\ apiResponse.userId \in Users
  /\ apiResponse.request.source = "BOTH"
  /\ apiResponse.ids # <<>>
  /\ \E id \in DOMAIN apiQuotes :
       ~apiQuotes[id].isPreloaded /\ apiQuotes[id].userId # apiResponse.userId

\* C14: a signed-in user's PUT /api/preferences with any of the four quote
\* sources the settings page offers is answered 200 and stores that source
C14_EverySourceCanBeSaved ==
  (/\ apiResponse.endpoint = "PUT /api/preferences"
   /\ apiResponse.userId \in Users
   /\ apiResponse.request.json
   /\ apiResponse.request.quoteSource \in Sources)
    => /\ apiResponse.status = 200
       /\ apiPreferences[apiResponse.userId] = apiResponse.request.quoteSource

\* C15: the id list the hook's ids query receives is the list of the quote
\* source saved in the user's preferences (BOTH while nothing is saved)
C15_HookLoadsSavedSource ==
  (apiResponse.client = "useOptimizedQuotes" /\ apiResponse.status = 200)
    => LET userId == apiResponse.userId
           saved == IF apiPreferences[userId] = "none" THEN "BOTH"
                    ELSE apiPreferences[userId]
       IN  apiResponse.ids =
             getQuoteIds([source |-> saved, userId |-> userId, category |-> 0], Db)

\* C16: the getNextQuote run that displays the last position of the order
\* makes shuffledIds a permutation of allQuoteIds and currentIdIndex 0 and
\* keeps the cache, and the getNextQuote call after it displays position 0 of
\* the new order
C16_ReshuffleAtEndOfPass ==
  [][/\ (lastCall'.reshuffled /\ lastCall' # lastCall)
          => /\ IsPermutation(shuffledIds', allQuoteIds')
             /\ currentIdIndex' = 0
             /\ DOMAIN quotesCache \subseteq DOMAIN quotesCache'
     /\ (lastCall.reshuffled /\ lastCall' # lastCall /\ lastCall'.resumedAt = -1)
          => /\ lastCall'.shownAt = 0
             /\ currentQuote'.id = At(shuffledIds, 0)]_vars

\* C17: while no batch request has failed, no id is sent to the batch
\* endpoint twice: the requests in flight share no id with each other or with
\* the ids already fetched
C17_EachIdRequestedOnce ==
  failures = 0 =>
    \A m \in DOMAIN mutations :
      /\ Range(mutations[m].ids) \cap fetchedIds = {}
      /\ \A n \in DOMAIN mutations :
           m # n => Range(mutations[m].ids) \cap Range(mutations[n].ids) = {}

\* C18: every batch request sent in a step carries between 1 and batchSize
\* different ids, all inside one window of batchSize consecutive positions of
\* a shuffled order the hook holds (the current one, the new one, or the one an
\* awaiting getNextQuote call closed over), so that with batchSize <= 50 the
\* body passes the endpoint's schema
C18_BatchWithinWindow ==
  [][\A x \in DOMAIN mutations' :
       LET ids == mutations'[x].ids
           orders == {shuffledIds, shuffledIds'}
                       \cup {mutations[n].c.shuffledIds : n \in DOMAIN mutations}
           InWindow(o) ==
             \E k \in 0..(Len(o) - 1) :
               Range(ids) \subseteq
                 {At(o, p) : p \in k..(Min(k + BatchSize, Len(o)) - 1)}
       IN  (\A n \in DOMAIN mutations : mutations[n].ids # ids)
             => /\ Len(ids) >= 1
                /\ Len(ids) <= BatchSize
                /\ Cardinality(Range(ids)) = Len(ids)
                /\ \E o \in orders : InWindow(o)
                /\ BatchSize <= BatchMaxIds
                     => batchSchema([EmptyRequest EXCEPT !.idsKind = "strings",
                                                         !.ids = ids])]_vars

\* a full batch and a shorter one are in flight after the first quote was shown
C18_Witness ==
  /\ currentQuote # Null
  /\ \E x \in DOMAIN mutations : Len(mutations[x].ids) = BatchSize
  /\ \E x \in DOMAIN mutations : Len(mutations[x].ids) < BatchSize

\* C19: a batch request that fails leaves the cache, the fetched-id set, the
\* displayed quote, currentIdIndex and the shuffled order as they were, and
\* none of its ids becomes marked as fetched
C19_FailedBatchChangesNothing ==
  [][failures' > failures
       => /\ UNCHANGED <<quotesCache, fetchedIds, currentQuote, currentIdIndex,
                         shuffledIds>>
          /\ \A n \in DOMAIN mutations :
               mutations' = RemoveAt(mutations, n)
                 => Range(mutations[n].ids) \cap fetchedIds'
                      = Range(mutations[n].ids) \cap fetchedIds]_vars

\* after a failed request a getNextQuote call awaits a request for ids that
\* are still unfetched
C19_Witness ==
  /\ failures > 0
  /\ Len(mutations) = 1
  /\ mutations[1].awaiting
  /\ Range(mutations[1].ids) \cap fetchedIds = {}
  /\ batchRequests >= 3

\* C20: POST /api/quotes/batch of a signed-in user answers 200 exactly when the
\* body's ids is a list of 1 to 50 strings; every other body is answered
\* 400 'Invalid request' without a read of the quote or favorite table
C20_BatchBodyValidated ==
  (apiResponse.endpoint = "POST /api/quotes/batch" /\ apiResponse.userId \in Users)
    => IF apiResponse.request.json /\ batchSchema(apiResponse.request)
         THEN apiResponse.status = 200
         ELSE /\ apiResponse.status = 400
              /\ apiResponse.error = "Invalid request"
              /\ apiResponse.reads = 0

\* C21: for every user and every list of requested ids, getQuotesByIds returns
\* one record for each requested id that has a stored quote and no other
\* record, and a record has isFavorited = true exactly when the user has a
\* favorite for that quote
C21_QuotesByIds ==
  \A userId \in Users, n \in 0..(NumPreloaded + MaxCustomQuotes + 2) :
    LET ids == IdArray(n)
        quotes == QuoteService_getQuotesByIds(Db, ids, userId)
        returned == {quotes[x].id : x \in DOMAIN quotes}
    IN  /\ returned = Range(ids) \cap DOMAIN apiQuotes
        /\ Cardinality(returned) = Len(quotes)
        /\ \A x \in DOMAIN quotes :
             quotes[x].isFavorited <=> <<userId, quotes[x].id>> \in apiFavorites

\* the batch endpoint answered a request that names an id twice and an id
\* without a stored quote, while the quote it returned is a favourite of
\* another user only
C21_Witness ==
  /\ apiResponse.endpoint = "POST /api/quotes/batch"
  /\ apiResponse.status = 200
  /\ Len(apiResponse.request.ids) > Cardinality(Range(apiResponse.request.ids))
  /\ Range(apiResponse.request.ids) \ DOMAIN apiQuotes # {}
  /\ apiResponse.ids # <<>>
  /\ apiResponse.favorited = {}
  /\ \E u \in Users, id \in Range(apiResponse.ids) :
       u # apiResponse.userId /\ <<u, id>> \in apiFavorites

\* C22: however POST /api/favorites requests interleave, no user has two
\* favorite rows for one quote, and a request that is answered when the user
\* has the favourite already creates no row, leaves the rows unchanged and is
\* answered 400 'Quote already favorited'
C22_OneFavoritePerQuote ==
  [][/\ \A i, j \in DOMAIN favoriteRows' :
          favoriteRows'[i] = favoriteRows'[j] => i = j
     /\ \A c \in 1..MaxFavoriteCalls :
          (/\ favoriteCalls[c].pc # "none"
           /\ favoriteCalls'[c].pc = "none"
           /\ FavoriteExists(favoriteRows, favoriteCalls[c].userId,
                             favoriteCalls[c].quoteId))
            => /\ favoriteRows' = favoriteRows
               /\ favoriteReply'.status = 400
               /\ favoriteReply'.error = "Quote already favorited"]_vars


\* C23: POST /api/quotes of a signed-in user creates a quote, non-preloaded
\* and owned by that user, exactly when the body has a text of 1 to 1000 and
\* an author of 1 to 100 characters; every other body is answered 400 and
\* creates no quote
C23_CreateQuoteValidated ==
  [][(/\ apiResponse'.endpoint = "POST /api/quotes"
      /\ apiResponse'.userId \in Users
      /\ <<apiResponse, apiQuotes>>' # <<apiResponse, apiQuotes>>)
       => IF apiResponse'.request.json /\ createQuoteSchema(apiResponse'.request)
            THEN /\ apiResponse'.status = 201
                 /\ Len(apiQuotes') = Len(apiQuotes) + 1
                 /\ \A id \in DOMAIN apiQuotes : apiQuotes'[id] = apiQuotes[id]
                 /\ ~apiQuotes'[Len(apiQuotes')].isPreloaded
                 /\ apiQuotes'[Len(apiQuotes')].userId = apiResponse'.userId
            ELSE /\ apiResponse'.status = 400
                 /\ apiQuotes' = apiQuotes]_vars


\* C24: once the document has left fullscreen and the page has handled the
\* fullscreenchange events, no wake lock is held
C24_WakeLockOnlyInFullscreen ==
  (~fullscreenElement /\ fullscreenEvents = 0) => heldLocks = {}

=============================================================================
